---- MODULE Spec2Model ----
(***************************************************************************)
(* SMS PDU codec of src/gsm/pdu.rs and the frame-buffer display of          *)
(* src/display/frame_buffer.rs.                                            *)
(*                                                                         *)
(* The codec is a set of pure functions over byte buffers.  A buffer       *)
(* (Vec<u8>, &[u8]) is a sequence of byte values 0..255; the PDU text is   *)
(* the sequence of the ASCII codes of its hex characters.  A Rust String   *)
(* is the sequence of its Unicode scalar values.                           *)
(*                                                                         *)
(* State: the arguments of the call under way (args), the buffer the call   *)
(* writes (output: the encoder's output, the display's pending frame), the *)
(* value the last call returned (ret) and the position in the call         *)
(* sequence (pc).                                                          *)
(***************************************************************************)
EXTENDS Integers, Sequences, FiniteSets, TLC

VARIABLES pc, args, output, ret

vars == <<pc, args, output, ret>>

(***************************************************************************)
(* Bounds of the model.                                                    *)
(***************************************************************************)
\* longest digit string enumerated over every digit of DigitSample
MaxDigits == 4
\* longest digit string of the patterned (all ten digits) inputs
MaxAddressLen == 20
\* longest text enumerated over every character of CharSample
MaxChars == 3
\* longest text of the patterned inputs: past the 127 units a length octet holds
MaxUnits == 130
\* most information elements of a header
MaxElements == 3
\* longest septet sequence enumerated over every septet of SeptetSample
MaxShortSeptets == 3
\* longest septet sequence of the patterned inputs: two groups of eight
MaxSeptets == 16

(***************************************************************************)
(* Machine arithmetic on u8.                                               *)
(***************************************************************************)
U8Max == 255

RECURSIVE BitAndN(_, _, _)
BitAndN(a, b, n) ==
    IF n = 0 THEN 0
    ELSE (IF a % 2 = 1 /\ b % 2 = 1 THEN 1 ELSE 0)
         + 2 * BitAndN(a \div 2, b \div 2, n - 1)

\* a & b on u8
BitAnd(a, b) == BitAndN(a, b, 8)

\* !a on u8
BitNot(a) == U8Max - a

RECURSIVE Pow2(_)
Pow2(n) == IF n = 0 THEN 1 ELSE 2 * Pow2(n - 1)

\* a << s on u8: the bits shifted past bit 7 are lost
Shl8(a, s) == (a * Pow2(s)) % (U8Max + 1)

\* a >> s
Shr(a, s) == a \div Pow2(s)

\* Result<T, Error>
Ok(v) == [tag |-> "Ok", val |-> v]
Err == [tag |-> "Err", val |-> "ParseError"]

\* nom::IResult and a panic (unwrap, assert!, panic!, arithmetic overflow)
Done(rest, v) == [kind |-> "Done", rest |-> rest, val |-> v]
Incomplete == [kind |-> "Incomplete", rest |-> <<>>, val |-> "Needed"]
Error == [kind |-> "Error", rest |-> <<>>, val |-> "ParseError"]
Panic == [kind |-> "Panic", rest |-> <<>>, val |-> "panic"]

None == [some |-> FALSE]
Some(v) == [some |-> TRUE, val |-> v]

Drop(s, n) == SubSeq(s, n + 1, Len(s))
Take(s, n) == SubSeq(s, 1, n)

(***************************************************************************)
(* Hex octets.                                                             *)
(***************************************************************************)
\* u4_to_hex: b'0'..b'9', b'A'..b'F'
U4HexTable == <<48, 49, 50, 51, 52, 53, 54, 55, 56, 57, 65, 66, 67, 68, 69, 70>>

u4_to_hex(data) == U4HexTable[data + 1]

u8_to_hex_swapped(data, out) ==
    out \o <<u4_to_hex(BitAnd(data, 15)), u4_to_hex(Shr(data, 4))>>

u8_to_hex(data, out) ==
    LET lower == Shr(data, 4)
        upper == BitAnd(data, 15)
    IN  out \o <<u4_to_hex(lower), u4_to_hex(upper)>>

\* char::to_digit(16): -1 when the byte is no hex digit
HexDigit(c) ==
    IF c >= 48 /\ c <= 57 THEN c - 48
    ELSE IF c >= 65 /\ c <= 70 THEN c - 55
    ELSE IF c >= 97 /\ c <= 102 THEN c - 87
    ELSE -1

\* the digits of from_str_radix(_, 16), most significant first; -1: an error
RECURSIVE RadixDigits(_, _, _)
RadixDigits(s, acc, max) ==
    IF acc < 0 THEN -1
    ELSE IF s = <<>> THEN acc
    ELSE LET d == HexDigit(Head(s))
         IN  IF d < 0 THEN -1
             ELSE IF 16 * acc + d > max THEN -1
             ELSE RadixDigits(Tail(s), 16 * acc + d, max)

\* uN::from_str_radix(s, 16) after str::from_utf8: an optional '+', then one
\* or more hex digits of either case; a byte >= 128 is no UTF-8 of a digit
from_str_radix(data, max) ==
    LET from_digits(digits) ==
            IF digits = <<>> THEN -1 ELSE RadixDigits(digits, 0, max)
        result(v) == IF v < 0 THEN Err ELSE Ok(v)
    IN  result(from_digits(IF data # <<>> /\ Head(data) = 43 THEN Tail(data)
                           ELSE data))

u8_from_hex_str(data) == from_str_radix(data, U8Max)

U16Max == 65535

u16_from_hex_str(data) == from_str_radix(data, U16Max)

(***************************************************************************)
(* nom combinators as the macros expand.                                   *)
(***************************************************************************)
\* take!(n)
take(i, n) == IF Len(i) < n THEN Incomplete ELSE Done(Drop(i, n), Take(i, n))

\* map_res!(p, f): t is what the parser p returned and r what f returns on
\* the value of t; an Err of f is an Error
map_res(t, r) ==
    IF t.kind # "Done" THEN t
    ELSE IF r.tag = "Ok" THEN Done(t.rest, r.val)
    ELSE Error

\* map_res!(take!(2), u8_from_hex_str)
hex_octet(i) ==
    LET t == take(i, 2)
    IN  map_res(t, u8_from_hex_str(t.val))

(***************************************************************************)
(* Addresses.                                                              *)
(***************************************************************************)
\* Number::new_international
new_international(number) == [format |-> "International", number |-> number]

\* the while loop of Number::serialize_to_pdu; bytes is indexed from 0 there
RECURSIVE SerializeDigits(_, _, _, _, _)
SerializeDigits(bytes, seen, original_len, odd, out) ==
    IF ~(seen < original_len) THEN out
    ELSE LET first == IF seen + 1 = original_len /\ odd
                      THEN 70
                      ELSE bytes[seen + 2]
         IN  SerializeDigits(bytes, seen + 2, original_len, odd,
                             out \o <<first, bytes[seen + 1]>>)

\* Number::serialize_to_pdu.  Done(output, ()) or a panic
Number_serialize_to_pdu(self, out) ==
    LET original_len == Len(self.number) % (U8Max + 1)
        odd == original_len % 2 = 1
        length == IF odd THEN original_len + 1 ELSE original_len
        with_len == u8_to_hex(length, out)
    IN  IF self.format # "International" THEN Panic
        ELSE Done(SerializeDigits(self.number, 0, original_len, odd,
                                  u8_to_hex(145, with_len)), "unit")

str_from_decimal_octet_keep_filler(data) == Ok(<<data[2], data[1]>>)

\* str_from_decimal_octet: data is the two bytes take!(2) returned
str_from_decimal_octet(data) ==
    Ok(<<data[2]>> \o (IF data[1] # 70 THEN <<data[1]>> ELSE <<>>))

get_decimal_length(data) ==
    IF data % 2 = 0 THEN Ok(data \div 2) ELSE Ok((data \div 2) + 1)

to_address_type(data) ==
    IF data = 145 THEN Ok("International")
    ELSE IF data = 201 THEN Ok("ShortCode")
    ELSE Err

\* map_res!(take!(2), str_from_decimal_octet)
decimal_octet(i) ==
    LET t == take(i, 2)
    IN  IF t.kind # "Done" THEN t
        ELSE Done(t.rest, str_from_decimal_octet(t.val).val)

\* count!(decimal_octet, length): Incomplete as soon as two characters are
\* missing, which is when fewer than 2 * length remain
RECURSIVE decimal_octet_count(_, _, _)
decimal_octet_count(i, length, acc) ==
    IF length = 0 THEN Done(i, acc)
    ELSE LET r == decimal_octet(i)
         IN  IF r.kind # "Done" THEN r
             ELSE decimal_octet_count(r.rest, length - 1, acc \o r.val)

\* map_res!(count!(decimal_octet, length), concat_strings)
decimal_octet_number(i, length) ==
    IF Len(i) < 2 * length THEN Incomplete
    ELSE decimal_octet_count(i, length, <<>>)

\* map_res!(hex_octet, get_decimal_length)
decimal_length_octet(i) ==
    LET r == hex_octet(i)
    IN  map_res(r, get_decimal_length(r.val))

\* map_res!(hex_octet, to_address_type)
address_type_octet(i) ==
    LET r == hex_octet(i)
    IN  map_res(r, to_address_type(r.val))

\* the sender_length, sender_address_type and sender steps of parse_pdu
parse_sender(i) ==
    LET sender_length == decimal_length_octet(i)
    IN  IF sender_length.kind # "Done" THEN sender_length
        ELSE
    LET sender_address_type == address_type_octet(sender_length.rest)
    IN  IF sender_address_type.kind # "Done" THEN sender_address_type
        ELSE
    LET sender == decimal_octet_number(sender_address_type.rest, sender_length.val)
    IN  IF sender.kind # "Done" THEN sender
        ELSE Done(sender.rest, [format |-> sender_address_type.val,
                                number |-> sender.val])

(***************************************************************************)
(* Hex octet round trip: u8_to_hex, then u8_from_hex_str.                  *)
(***************************************************************************)
InitHex ==
    /\ pc = "hex_start"
    /\ args \in [data : 0..U8Max]
    /\ output = <<>>
    /\ ret = None

HexEncode ==
    /\ pc = "hex_start"
    /\ output' = u8_to_hex(args.data, output)
    /\ pc' = "hex_encoded"
    /\ UNCHANGED <<args, ret>>

HexDecode ==
    /\ pc = "hex_encoded"
    /\ ret' = u8_from_hex_str(output)
    /\ pc' = "hex_done"
    /\ UNCHANGED <<args, output>>

NextHex == HexEncode \/ HexDecode

SpecHex == InitHex /\ [][NextHex]_vars

\* the uppercase hex digit of a nibble, as an ASCII code
UpperHexChar(n) == IF n < 10 THEN 48 + n ELSE 65 + (n - 10)

\* C9: for every byte b, u8_to_hex(b) is two characters, the high nibble's
\* uppercase hex digit then the low nibble's, and u8_from_hex_str of them
\* returns b.
C9_HexRoundTrip ==
    /\ pc \in {"hex_encoded", "hex_done"} =>
          /\ Len(output) = 2
          /\ output[1] = UpperHexChar(args.data \div 16)
          /\ output[2] = UpperHexChar(args.data % 16)
    /\ pc = "hex_done" => ret = Ok(args.data)

C9_Witness ==
    /\ pc = "hex_done"
    /\ args.data = 171
    /\ output = <<65, 66>>
    /\ ret = Ok(171)

(***************************************************************************)
(* Address round trip: Number::serialize_to_pdu, then the sender-address   *)
(* steps of parse_pdu.                                                     *)
(***************************************************************************)
DigitSample == {48, 53, 57}

ShortDigitStrings == UNION {[1..n -> DigitSample] : n \in 1..MaxDigits}

\* every digit 0..9, in a rotation that starts at digit k
PatternDigitStrings ==
    {[i \in 1..n |-> 48 + ((i + k) % 10)] : n \in 1..MaxAddressLen, k \in 0..9}

InitAddress ==
    /\ pc = "address_start"
    /\ args \in {[number |-> new_international(d)] :
                    d \in ShortDigitStrings \cup PatternDigitStrings}
    /\ output = <<>>
    /\ ret = None

AddressSerialize ==
    /\ pc = "address_start"
    /\ LET r == Number_serialize_to_pdu(args.number, output)
       IN  IF r.kind = "Done"
           THEN output' = r.rest /\ pc' = "address_encoded"
           ELSE output' = output /\ pc' = "address_panic"
    /\ UNCHANGED <<args, ret>>

AddressParse ==
    /\ pc = "address_encoded"
    /\ ret' = parse_sender(output)
    /\ pc' = "address_done"
    /\ UNCHANGED <<args, output>>

NextAddress == AddressSerialize \/ AddressParse

SpecAddress == InitAddress /\ [][NextAddress]_vars

\* C3: for every string of ASCII digits, serialising the number and decoding
\* the result as a sender address returns the original digit string; for an
\* odd length the encoder wrote the filler 'F' in the last octet and the
\* decoder dropped it.
C3_AddressRoundTrip ==
    pc = "address_done" =>
        /\ ret.kind = "Done"
        /\ ret.rest = <<>>
        /\ ret.val.number = args.number.number
        /\ Len(args.number.number) % 2 = 1 =>
              /\ output[Len(output) - 1] = 70
              /\ 70 \notin {ret.val.number[i] : i \in 1..Len(ret.val.number)}

C3_Witness ==
    /\ pc = "address_done"
    /\ args.number.number = <<53, 48, 57>>
    /\ output = <<48, 52, 57, 49, 48, 53, 70, 57>>
    /\ ret.val.number = <<53, 48, 57>>

(***************************************************************************)
(* 16-bit text.                                                            *)
(***************************************************************************)
\* UserData::new_utf16
new_utf16(data) == [encoding |-> "Utf16", data |-> data, header |-> None]

\* the code units of one scalar value: past U+FFFF a surrogate pair
CharUnits(c) ==
    IF c <= U16Max THEN <<c>>
    ELSE <<55296 + ((c - 65536) \div 1024), 56320 + ((c - 65536) % 1024)>>

\* str::encode_utf16: the units of each character in turn (the iteration is
\* folded by halves, which keeps the evaluation shallow on long texts)
RECURSIVE encode_utf16(_)
encode_utf16(data) ==
    IF Len(data) = 0 THEN <<>>
    ELSE IF Len(data) = 1 THEN CharUnits(data[1])
    ELSE LET h == Len(data) \div 2
         IN  encode_utf16(Take(data, h)) \o encode_utf16(Drop(data, h))

\* one pass of the for loop of UserData::serialize_to_pdu: the high byte of
\* the unit as two hex characters, then the low byte
SerializeUnit(byte, intermediate_output) ==
    u8_to_hex(BitAnd(byte, 255),
              u8_to_hex(Shr(byte, 8) % (U8Max + 1), intermediate_output))

\* the for loop of UserData::serialize_to_pdu, folded by halves
RECURSIVE SerializeUnits(_)
SerializeUnits(units) ==
    IF Len(units) = 0 THEN <<>>
    ELSE IF Len(units) = 1 THEN SerializeUnit(units[1], <<>>)
    ELSE LET h == Len(units) \div 2
         IN  SerializeUnits(Take(units, h)) \o SerializeUnits(Drop(units, h))

\* UserData::serialize_to_pdu.  Done(output, ()) or a panic of an assert!
UserData_serialize_to_pdu(self, out) ==
    IF self.header.some THEN Panic
    ELSE IF self.encoding # "Utf16" THEN Panic
    ELSE LET units == encode_utf16(self.data)
             intermediate_output == SerializeUnits(units)
             length == 2 * Len(units)
         IN  Done(u8_to_hex(length % (U8Max + 1), out) \o intermediate_output,
                  "unit")

\* many0!(map_res!(take!(4), u16_from_hex_str)): the groups of four
\* characters in turn; it stops, with the units it has, at the first group
\* that is no hex number, and is Incomplete on a short last group
u8_vec_to_u16_vec(i) ==
    LET groups == Len(i) \div 4
        unit(k) == u16_from_hex_str(SubSeq(i, 4 * k - 3, 4 * k))
        bad == {k \in 1..groups : unit(k).tag # "Ok"}
        stop == IF bad = {} THEN groups + 1
                ELSE CHOOSE k \in bad : \A j \in bad : k <= j
        res == [k \in 1..(stop - 1) |-> unit(k).val]
    IN  IF bad = {} /\ Len(i) % 4 # 0 THEN Incomplete
        ELSE Done(Drop(i, 4 * (stop - 1)), res)

IsHighSurrogate(u) == u >= 55296 /\ u <= 56319
IsLowSurrogate(u) == u >= 56320 /\ u <= 57343

\* String::from_utf16: a high surrogate pairs with the low surrogate right
\* after it; any other surrogate is unpaired and the result is Err
from_utf16(units) ==
    LET n == Len(units)
        second(j) == IsLowSurrogate(units[j]) /\ j > 1 /\ IsHighSurrogate(units[j - 1])
        paired(j) == IsHighSurrogate(units[j]) /\ j < n /\ IsLowSurrogate(units[j + 1])
        unpaired == {j \in 1..n : \/ IsLowSurrogate(units[j]) /\ ~second(j)
                                  \/ IsHighSurrogate(units[j]) /\ ~paired(j)}
        starts == {j \in 1..n : ~second(j)}
        \* the k-th character starts at the k-th unit that is no second half
        start(k) == CHOOSE j \in starts : Cardinality({x \in starts : x < j}) = k - 1
        char(j) == IF paired(j)
                   THEN 65536 + (units[j] - 55296) * 1024 + (units[j + 1] - 56320)
                   ELSE units[j]
    IN  IF unpaired # {} THEN Err
        ELSE Ok([k \in 1..Cardinality(starts) |-> char(start(k))])

parse_utf16_length_in_units(data, length) ==
    LET u16_len == length * 4
    IN  IF Len(data) < u16_len THEN Incomplete
        ELSE LET utf16_str == u8_vec_to_u16_vec(Take(data, u16_len))
             IN  IF utf16_str.kind # "Done" THEN Panic
                 ELSE LET s == from_utf16(utf16_str.val)
                      IN  IF s.tag = "Ok" THEN Done(Drop(data, u16_len), s.val)
                          ELSE Error

\* parse_utf16: length is the octet count, u16_len the hex character count
parse_utf16(data, length) ==
    LET u16_len == length * 2
    IN  IF Len(data) < u16_len THEN Incomplete
        ELSE LET utf16_str == u8_vec_to_u16_vec(Take(data, u16_len))
             IN  IF utf16_str.kind # "Done" THEN Panic
                 ELSE LET s == from_utf16(utf16_str.val)
                      IN  IF s.tag = "Ok" THEN Done(Drop(data, u16_len), s.val)
                          ELSE Error

(***************************************************************************)
(* 16-bit text round trip: UserData::serialize_to_pdu, then the length      *)
(* octet and parse_utf16 as parse_pdu applies them to a body with no        *)
(* header.                                                                  *)
(***************************************************************************)
\* 'A', e-acute, a CJK ideograph, U+FFFD
BmpSample == <<65, 233, 20013, 65533>>

\* and one character past U+FFFF, which takes two code units
CharSample == {BmpSample[i] : i \in 1..Len(BmpSample)} \cup {128512}

ShortTexts == UNION {[1..n -> CharSample] : n \in 0..MaxChars}

PatternTexts ==
    {[i \in 1..n |-> BmpSample[((i + k) % Len(BmpSample)) + 1]] :
        n \in 0..MaxUnits, k \in 0..1}

InitUtf16 ==
    /\ pc = "utf16_start"
    /\ args \in {[user_data |-> new_utf16(t)] : t \in ShortTexts \cup PatternTexts}
    /\ output = <<>>
    /\ ret = None

Utf16Serialize ==
    /\ pc = "utf16_start"
    /\ LET r == UserData_serialize_to_pdu(args.user_data, output)
       IN  IF r.kind = "Done"
           THEN output' = r.rest /\ pc' = "utf16_encoded"
           ELSE output' = output /\ pc' = "utf16_panic"
    /\ UNCHANGED <<args, ret>>

Utf16Parse ==
    /\ pc = "utf16_encoded"
    /\ LET ud_length == hex_octet(output)
       IN  ret' = IF ud_length.kind # "Done" THEN ud_length
                  ELSE parse_utf16(ud_length.rest, ud_length.val)
    /\ pc' = "utf16_done"
    /\ UNCHANGED <<args, output>>

NextUtf16 == Utf16Serialize \/ Utf16Parse

SpecUtf16 == InitUtf16 /\ [][NextUtf16]_vars

SingleUnitText(t) == \A i \in 1..Len(t) : t[i] <= U16Max

\* the four hex characters of code unit u, high byte first
UnitHex(u) ==
    <<UpperHexChar(u \div 4096), UpperHexChar((u \div 256) % 16),
      UpperHexChar((u \div 16) % 16), UpperHexChar(u % 16)>>

\* C4 as stated: for any text of single-unit characters the length octet is
\* twice the number of code units and decoding returns the text.
C4_Utf16RoundTrip_AnyLength ==
    (pc = "utf16_done" /\ SingleUnitText(args.user_data.data)) =>
        /\ hex_octet(output).val = 2 * Len(args.user_data.data)
        /\ ret.kind = "Done"
        /\ ret.val = args.user_data.data

\* C4 amended: the length octet is twice the number of code units modulo 256,
\* each unit follows as four hex characters high byte first, and decoding
\* with the emitted length returns the first (units mod 128) characters: the
\* whole text exactly when it has at most 127 code units.
C4_Utf16RoundTrip ==
    (pc = "utf16_done" /\ SingleUnitText(args.user_data.data)) =>
        LET t == args.user_data.data
            n == Len(t)
        IN  /\ Len(output) = 2 + 4 * n
            /\ Take(output, 2) = <<UpperHexChar(((2 * n) % 256) \div 16),
                                   UpperHexChar((2 * n) % 16)>>
            /\ \A i \in 1..n : SubSeq(output, 4 * i - 1, 4 * i + 2) = UnitHex(t[i])
            /\ ret.kind = "Done"
            /\ ret.val = Take(t, n % 128)
            /\ n <= 127 => (hex_octet(output).val = 2 * n /\ ret.val = t
                            /\ ret.rest = <<>>)

C4_Witness ==
    /\ pc = "utf16_done"
    /\ args.user_data.data = <<65, 20013, 233>>
    /\ output = <<48, 54, 48, 48, 52, 49, 52, 69, 50, 68, 48, 48, 69, 57>>
    /\ ret.val = <<65, 20013, 233>>

(***************************************************************************)
(* Packed 7-bit alphabet.                                                  *)
(***************************************************************************)
GSM_MASKS_one_early == <<63, 31, 15, 7, 3, 1, 255, 127>>

\* GSM_MASKS, indexed from 0 in the source
GSM_MASKS == <<127, 63, 31, 15, 7, 3, 1, 255>>

\* GSM_CHARS as scalar values, indexed from 0 in the source
GSM_CHARS ==
  <<64, 163, 36, 165, 232, 233, 249, 236, 242, 199, 10, 216, 248, 13, 197, 229,
  916, 95, 934, 915, 923, 937, 928, 936, 931, 920, 926, 63, 198, 230, 223, 201,
  32, 33, 34, 35, 164, 37, 38, 39, 40, 41, 42, 43, 44, 45, 46, 47,
  48, 49, 50, 51, 52, 53, 54, 55, 56, 57, 58, 59, 60, 61, 62, 63,
  161, 65, 66, 67, 68, 69, 70, 71, 72, 73, 74, 75, 76, 77, 78, 79,
  80, 81, 82, 83, 84, 85, 86, 87, 88, 89, 90, 196, 214, 209, 220, 167,
  191, 97, 98, 99, 100, 101, 102, 103, 104, 105, 106, 107, 108, 109, 110, 111,
  112, 113, 114, 115, 116, 117, 118, 119, 120, 121, 122, 228, 246, 241, 252, 224>>

\* the while loop of parse_gsm_alphabet; parsed_octets counts characters.
\* hex_octet(rest).unwrap() panics on a missing or malformed octet, and an
\* index past the table panics
RECURSIVE GsmLoop(_, _, _, _, _)
GsmLoop(rest, length, parsed_octets, out, saved_byte) ==
    IF ~(parsed_octets < length) THEN Done(rest, out)
    ELSE LET parse_stage == parsed_octets % 8
         IN  IF parse_stage = 7
             THEN IF saved_byte + 1 > Len(GSM_CHARS) THEN Panic
                  ELSE GsmLoop(rest, length, parsed_octets + 1,
                               Append(out, GSM_CHARS[saved_byte + 1]), 0)
             ELSE LET o == hex_octet(rest)
                  IN  IF o.kind # "Done" THEN Panic
                      ELSE
    LET next_byte == o.val
        mask == GSM_MASKS[parse_stage + 1]
        character == Shl8(BitAnd(next_byte, mask), parse_stage)
        index == character + saved_byte
    IN  IF index > U8Max \/ index + 1 > Len(GSM_CHARS) THEN Panic
        ELSE GsmLoop(o.rest, length, parsed_octets + 1,
                     Append(out, GSM_CHARS[index + 1]),
                     Shr(BitAnd(next_byte, BitNot(mask)), 7 - parse_stage))

parse_gsm_alphabet(pdu_string, length) == GsmLoop(pdu_string, length, 0, <<>>, 0)

(***************************************************************************)
(* Packed 7-bit decode of the packing of known septets.                    *)
(***************************************************************************)
\* bit k of x
Bit(x, k) == (x \div Pow2(k)) % 2

\* bit g of the packed stream: septet i holds bits 7i .. 7i+6, low bit first
StreamBit(septets, g) ==
    IF g \div 7 < Len(septets) THEN Bit(septets[(g \div 7) + 1], g % 7) ELSE 0

\* octet j (from 0) of the packed stream
PackedOctet(septets, j) ==
    StreamBit(septets, 8 * j) + 2 * StreamBit(septets, 8 * j + 1)
    + 4 * StreamBit(septets, 8 * j + 2) + 8 * StreamBit(septets, 8 * j + 3)
    + 16 * StreamBit(septets, 8 * j + 4) + 32 * StreamBit(septets, 8 * j + 5)
    + 64 * StreamBit(septets, 8 * j + 6) + 128 * StreamBit(septets, 8 * j + 7)

\* the octets n septets pack into: 8 characters per 7 octets
PackedLen(n) == (7 * n + 7) \div 8

\* the hex text of the packing
PackedHex(septets) ==
    [x \in 1..(2 * PackedLen(Len(septets))) |->
        LET o == PackedOctet(septets, (x - 1) \div 2)
        IN  IF x % 2 = 1 THEN UpperHexChar(o \div 16) ELSE UpperHexChar(o % 16)]

SeptetSample == {0, 42, 85, 127}

ShortSeptets == UNION {[1..n -> SeptetSample] : n \in 0..MaxShortSeptets}

\* septet i is a*i + b modulo 128
PatternSeptets ==
    {[i \in 1..n |-> (a * i + b) % 128] :
        n \in 0..MaxSeptets, a \in {1, 37, 127}, b \in {0, 27, 64, 101}}

\* the septets of "hellohi!"
HelloSeptets == <<104, 101, 108, 108, 111, 104, 105, 33>>

InitGsm ==
    /\ pc = "gsm_start"
    /\ args \in {[septets |-> s, pdu_string |-> PackedHex(s), length |-> Len(s)] :
                    s \in ShortSeptets \cup PatternSeptets \cup {HelloSeptets}}
    /\ output = <<>>
    /\ ret = None

GsmParse ==
    /\ pc = "gsm_start"
    /\ ret' = parse_gsm_alphabet(args.pdu_string, args.length)
    /\ pc' = "gsm_done"
    /\ UNCHANGED <<args, output>>

NextGsm == GsmParse

SpecGsm == InitGsm /\ [][NextGsm]_vars

\* C7: for every count n and every septets c_0..c_{n-1} packed 8 characters
\* per 7 octets, parse_gsm_alphabet returns exactly the characters
\* GSM_CHARS[c_0] .. GSM_CHARS[c_{n-1}] in order; it consumes exactly the
\* packed octets (none for the character of step 7), and no table index
\* leaves 0..127 (it would panic).
C7_GsmDecode ==
    pc = "gsm_done" =>
        /\ ret.kind = "Done"
        /\ ret.val = [i \in 1..args.length |-> GSM_CHARS[args.septets[i] + 1]]
        /\ ret.rest = <<>>
        /\ Len(args.pdu_string) = 2 * PackedLen(args.length)
        /\ args.length % 8 = 0 => Len(args.pdu_string) = 2 * 7 * (args.length \div 8)

\* "hellohi!": 8 characters from the 7 octets E8 32 9B FD 46 A7 43
C7_Witness ==
    /\ pc = "gsm_done"
    /\ args.septets = HelloSeptets
    /\ args.pdu_string = <<69, 56, 51, 50, 57, 66, 70, 68, 52, 54, 65, 55, 52, 51>>
    /\ ret.kind = "Done"
    /\ ret.val = HelloSeptets
    /\ ret.rest = <<>>

(***************************************************************************)
(* Timestamps.                                                             *)
(***************************************************************************)
\* parse_ascii_hex_number: 0 for a byte that is no hex digit
parse_ascii_hex_number(data) ==
    IF data >= 48 /\ data <= 57 THEN data - 48
    ELSE IF data >= 65 /\ data <= 70 THEN data - 55
    ELSE IF data >= 97 /\ data <= 102 THEN data - 87
    ELSE 0

parse_time_zone_unsigned(zero, one) == (10 * BitAnd(one, 7)) + zero

parse_time_zone(zero, one) ==
    LET negative == BitAnd(one, 8) # 0
        masked == IF negative THEN BitAnd(one, 7) ELSE one
        sign == IF negative THEN -1 ELSE 1
    IN  sign * ((10 * masked) + zero)

\* chrono: the white space a numeric item skips before its digits
WhiteSpace == {9, 10, 11, 12, 13, 32, 133, 160}

RECURSIVE TrimLeft(_)
TrimLeft(s) == IF s # <<>> /\ Head(s) \in WhiteSpace THEN TrimLeft(Tail(s)) ELSE s

IsDigit(c) == c >= 48 /\ c <= 57

\* chrono scan::number(s, 1, 2): one or two decimal digits
ScanNumber(s0) ==
    LET s == TrimLeft(s0)
    IN  IF s = <<>> \/ ~IsDigit(s[1]) THEN Error
        ELSE IF Len(s) >= 2 /\ IsDigit(s[2])
        THEN Done(Drop(s, 2), 10 * (s[1] - 48) + (s[2] - 48))
        ELSE Done(Drop(s, 1), s[1] - 48)

\* the numeric items of DATETIME_FORMAT_STRING, "%y%m%d%H%M%S", in turn
RECURSIVE ScanFields(_, _, _)
ScanFields(s, n, acc) ==
    IF n = 0 THEN (IF s = <<>> THEN Done(s, acc) ELSE Error)
    ELSE LET r == ScanNumber(s)
         IN  IF r.kind # "Done" THEN Error
             ELSE ScanFields(r.rest, n - 1, Append(acc, r.val))

IsLeapYear(y) == y % 4 = 0 /\ (y % 100 # 0 \/ y % 400 = 0)

DaysInMonth(y, m) ==
    IF m = 2 THEN (IF IsLeapYear(y) THEN 29 ELSE 28)
    ELSE IF m \in {4, 6, 9, 11} THEN 30
    ELSE 31

\* days from 1970-01-01 to the civil date
DaysFromCivil(y, m, d) ==
    LET yy == IF m <= 2 THEN y - 1 ELSE y
        era == yy \div 400
        yoe == yy - era * 400
        mp == (m + 9) % 12
        doy == (153 * mp + 2) \div 5 + d - 1
        doe == yoe * 365 + yoe \div 4 - yoe \div 100 + doy
    IN  era * 146097 + doe - 719468

\* chrono datetime_from_str with DATETIME_FORMAT_STRING: the local date-time
\* as days from 1970-01-01 and the second of the day; a second of 60 is a
\* leap second of second 59.  %y: 00..69 is 2000..2069, 70..99 is 1970..1999
datetime_from_str(data) ==
    LET resolve(year, month, day, hour, minute, second) ==
            IF /\ month >= 1 /\ month <= 12
               /\ day >= 1 /\ day <= DaysInMonth(year, month)
               /\ hour <= 23 /\ minute <= 59 /\ second <= 60
            THEN Ok([days |-> DaysFromCivil(year, month, day),
                     secs |-> 3600 * hour + 60 * minute
                              + (IF second = 60 THEN 59 ELSE second),
                     leap |-> second = 60])
            ELSE Err
        parsed(f) ==
            IF f.kind # "Done" THEN Err
            ELSE resolve(f.val[1] + (IF f.val[1] < 70 THEN 2000 ELSE 1900),
                         f.val[2], f.val[3], f.val[4], f.val[5], f.val[6])
    IN  parsed(ScanFields(data, 6, <<>>))

\* the instant `offset` seconds before the date-time t
MinusSeconds(t, offset) ==
    LET s == t.secs - offset
    IN  [days |-> t.days + (IF s < 0 THEN -1 ELSE IF s >= 86400 THEN 1 ELSE 0),
         secs |-> s % 86400,
         leap |-> t.leap]

\* parse_date_time: the date-time read at FixedOffset::east(time_zone * 900),
\* as an instant of Utc
parse_date_time(tz_data, data) ==
    LET time_zone == parse_time_zone(parse_ascii_hex_number(tz_data[1]),
                                     parse_ascii_hex_number(tz_data[2]))
        local == datetime_from_str(data)
    IN  IF local.tag # "Ok" THEN Err
        ELSE Ok(MinusSeconds(local.val, time_zone * 900))

(***************************************************************************)
(* Timezone offsets: parse_date_time on every pair of timezone characters. *)
(***************************************************************************)
\* the hex digits of both cases and some bytes that are no hex digit
TzCharSample ==
    (48..57) \cup (65..70) \cup (97..102) \cup {32, 47, 58, 71, 103, 120}

\* one character any byte, the other of the sample
TzPairs ==
    {<<a, b>> : a \in 0..U8Max, b \in TzCharSample}
    \cup {<<a, b>> : a \in TzCharSample, b \in 0..U8Max}

\* 2000-01-01 00:00:00, 2024-02-29 12:30:15, 1999-12-31 23:59:59
TimestampSample ==
    {<<48, 48, 48, 49, 48, 49, 48, 48, 48, 48, 48, 48>>,
     <<50, 52, 48, 50, 50, 57, 49, 50, 51, 48, 49, 53>>,
     <<57, 57, 49, 50, 51, 49, 50, 51, 53, 57, 53, 57>>}

InitTz ==
    /\ pc = "tz_start"
    /\ args \in {[tz_data |-> z, data |-> d] : z \in TzPairs, d \in TimestampSample}
    /\ output = <<>>
    /\ ret = None

TzParse ==
    /\ pc = "tz_start"
    /\ ret' = parse_date_time(args.tz_data, args.data)
    /\ pc' = "tz_done"
    /\ UNCHANGED <<args, output>>

NextTz == TzParse

SpecTz == InitTz /\ [][NextTz]_vars

\* the value of a timezone character: its hex digit, 0 when it is none
TzCharValue(c) == IF HexDigit(c) < 0 THEN 0 ELSE HexDigit(c)

\* the offset, in quarter-hours, the claim gives a pair of characters
ClaimedOffset(z) ==
    LET ones == TzCharValue(z[1])
        tens == TzCharValue(z[2]) % 8
        sign == IF (TzCharValue(z[2]) \div 8) % 2 = 1 THEN -1 ELSE 1
    IN  sign * (10 * tens + ones)

\* the seconds from 1970-01-01 00:00:00 of a date-time, in minutes and a
\* second of the minute (the seconds alone pass 2^31)
Minutes(t) == t.days * 1440 + t.secs \div 60

\* C8: for every pair of timezone characters the offset in quarter-hours is
\* sign * (10 * tens + ones), and the decoded instant is the local date-time
\* minus offset * 15 minutes; tens 2, ones 0 is -5 hours with the sign bit
\* set and +5 hours with it clear.
C8_TimezoneOffset ==
    pc = "tz_done" =>
        LET local == datetime_from_str(args.data).val
            offset == ClaimedOffset(args.tz_data)
        IN  /\ ret.tag = "Ok"
            /\ Minutes(ret.val) = Minutes(local) - 15 * offset
            /\ ret.val.secs % 60 = local.secs % 60
            /\ ret.val.secs \in 0..86399
            /\ args.tz_data = <<48, 65>> => Minutes(ret.val) = Minutes(local) + 300
            /\ args.tz_data = <<48, 50>> => Minutes(ret.val) = Minutes(local) - 300

\* "0A": ones 0, tens 2, sign bit set: 2000-01-01 00:00 at -5 h is 05:00 Utc
C8_Witness ==
    /\ pc = "tz_done"
    /\ args.tz_data = <<48, 65>>
    /\ args.data = <<48, 48, 48, 49, 48, 49, 48, 48, 48, 48, 48, 48>>
    /\ ret = Ok([days |-> 10957, secs |-> 18000, leap |-> FALSE])

(***************************************************************************)
(* User Data Header.                                                       *)
(***************************************************************************)
\* whether the build checks arithmetic overflow (a debug build panics, a
\* release build wraps)
OverflowChecks == args.overflow_checks

\* parse_length: 2 * l on u8
parse_length(data) ==
    LET double(l) ==
            IF l.tag # "Ok" THEN Err
            ELSE IF 2 * l.val > U8Max /\ OverflowChecks
            THEN [tag |-> "Panic", val |-> "overflow"]
            ELSE Ok((2 * l.val) % (U8Max + 1))
    IN  double(u8_from_hex_str(data))

\* length_data!(map_res!(take!(2), parse_length)): the length octet, then
\* that many characters
length_data(i) ==
    LET data(t, l) ==
            IF l.tag = "Panic" THEN Panic
            ELSE IF l.tag # "Ok" THEN Error
            ELSE take(t.rest, l.val)
        length(t) ==
            IF t.kind # "Done" THEN t ELSE data(t, parse_length(t.val))
    IN  length(take(i, 2))

\* parse_concatenated_message: three hex octets; what follows them is left
parse_concatenated_message(i) ==
    LET reference_number == hex_octet(i)
    IN  IF reference_number.kind # "Done" THEN reference_number
        ELSE
    LET number_of_messages == hex_octet(reference_number.rest)
    IN  IF number_of_messages.kind # "Done" THEN number_of_messages
        ELSE
    LET sequence_number == hex_octet(number_of_messages.rest)
    IN  IF sequence_number.kind # "Done" THEN sequence_number
        ELSE Done(sequence_number.rest,
                  [reference_number |-> reference_number.val,
                   number_of_messages |-> number_of_messages.val,
                   sequence_number |-> sequence_number.val])

\* parse_iei_reserved: a tag octet, then length_value!(.., nom::rest): the
\* payload's characters as they are
parse_iei_reserved(i) ==
    LET element(tag, data) ==
            IF data.kind # "Done" THEN data
            ELSE Done(data.rest, [tag |-> tag.val, data |-> data.val])
        payload(tag) ==
            IF tag.kind # "Done" THEN tag
            ELSE element(tag, length_data(tag.rest))
    IN  payload(hex_octet(i))

\* many0!(parse_iei_reserved) under complete!: it ends at the end of the
\* input or, with what it has, at an element that is an Error; an element
\* that is Incomplete makes the whole an Error
RECURSIVE many0_parse_iei_reserved(_, _)
many0_parse_iei_reserved(input, res) ==
    LET next(r) ==
            IF r.kind = "Error" THEN Done(input, res)
            ELSE IF r.kind = "Incomplete" THEN Error
            ELSE IF r.kind = "Panic" THEN Panic
            ELSE many0_parse_iei_reserved(r.rest, Append(res, r.val))
    IN  IF Len(input) = 0 THEN Done(input, res)
        ELSE next(parse_iei_reserved(input))

\* Header::new().set_entries(entries)
Header_new_set_entries(entries) ==
    [concatenated_message |-> None, entries |-> entries]

\* parse_user_header: the header's length octet, then its elements
parse_user_header(i) ==
    LET header(sub, entries) ==
            IF entries.kind # "Done" THEN entries
            ELSE Done(sub.rest, Some(Header_new_set_entries(entries.val)))
        elements(sub) ==
            IF sub.kind # "Done" THEN sub
            ELSE header(sub, many0_parse_iei_reserved(sub.val, <<>>))
    IN  elements(length_data(i))

\* the for loop of Header::parse_entries over the entries taken out of self
RECURSIVE ParseEntriesLoop(_, _)
ParseEntriesLoop(self, entries) ==
    IF entries = <<>> THEN self
    ELSE LET entry == Head(entries)
             p == IF entry.tag = 0 THEN parse_concatenated_message(entry.data)
                  ELSE Error
         IN  IF p.kind = "Done"
             THEN \* get_or_insert, then continue: the entry is not pushed
                  ParseEntriesLoop(
                      [self EXCEPT !.concatenated_message =
                          IF ~self.concatenated_message.some THEN Some(p.val)
                          ELSE self.concatenated_message],
                      Tail(entries))
             ELSE ParseEntriesLoop(
                      [self EXCEPT !.entries = Append(self.entries, entry)],
                      Tail(entries))

\* Header::parse_entries
parse_entries(self) ==
    ParseEntriesLoop([self EXCEPT !.entries = <<>>], self.entries)

(***************************************************************************)
(* Header decode: parse_user_header, then Header::parse_entries, as        *)
(* parse_user_data runs them on a body that has a header.                  *)
(***************************************************************************)
\* the hex text of a sequence of octets
HexOf(octets) ==
    [x \in 1..(2 * Len(octets)) |->
        LET o == octets[(x + 1) \div 2]
        IN  IF x % 2 = 1 THEN UpperHexChar(o \div 16) ELSE UpperHexChar(o % 16)]

\* an information element on the wire: tag, payload length, payload
ElementOctets(e) == <<e.tag, Len(e.payload)>> \o e.payload

RECURSIVE ElementsOctets(_)
ElementsOctets(es) ==
    IF es = <<>> THEN <<>> ELSE ElementOctets(Head(es)) \o ElementsOctets(Tail(es))

\* the header on the wire: the length of its elements, then the elements
WireHeader(es) == HexOf(<<Len(ElementsOctets(es))>> \o ElementsOctets(es))

\* concatenation elements (tag 0) that are well formed, short and long, and
\* elements of other tags
ElementSample ==
    {[tag |-> 0, payload |-> <<7, 3, 2>>],
     [tag |-> 0, payload |-> <<9, 2, 1>>],
     [tag |-> 0, payload |-> <<7, 3>>],
     [tag |-> 0, payload |-> <<7, 3, 2, 1>>],
     [tag |-> 1, payload |-> <<>>],
     [tag |-> 5, payload |-> <<170, 187>>],
     [tag |-> 36, payload |-> <<1>>]}

HeaderSample == UNION {[1..n -> ElementSample] : n \in 0..MaxElements}

InitHeader ==
    /\ pc = "header_start"
    /\ args \in {[elements |-> es, data |-> WireHeader(es), overflow_checks |-> c] :
                    es \in HeaderSample, c \in BOOLEAN}
    /\ output = <<>>
    /\ ret = None

HeaderParse ==
    /\ pc = "header_start"
    /\ ret' = parse_user_header(args.data)
    /\ pc' = IF ret'.kind = "Done" THEN "header_parsed" ELSE "header_failed"
    /\ UNCHANGED <<args, output>>

HeaderParseEntries ==
    /\ pc = "header_parsed"
    /\ ret' = [ret EXCEPT !.val = Some(parse_entries(ret.val.val))]
    /\ pc' = "header_done"
    /\ UNCHANGED <<args, output>>

NextHeader == HeaderParse \/ HeaderParseEntries

SpecHeader == InitHeader /\ [][NextHeader]_vars

\* the wire elements as entries: the tag and the payload's characters
WireEntries(es) ==
    [k \in 1..Len(es) |-> [tag |-> es[k].tag, data |-> HexOf(es[k].payload)]]

\* the payload of a concatenation element that decodes
WellFormedConcat(e) == e.tag = 0 /\ Len(e.payload) >= 3

\* C1: after the decode of a header, entries holds every element of the wire
\* header, in wire order, tag and payload unmodified, the tag-0 element that
\* was decoded into concatenated_message included.
C1_EntriesRetainAll ==
    pc = "header_done" =>
        /\ ret.kind = "Done"
        /\ ret.val.val.entries = WireEntries(args.elements)
        /\ (\E k \in 1..Len(args.elements) : WellFormedConcat(args.elements[k]))
              => ret.val.val.concatenated_message.some

\* what the code does instead: the entries are the wire elements less every
\* tag-0 element that decoded
C1_DecodedConcatDropped ==
    pc = "header_done" =>
        LET es == args.elements
            kept == {k \in 1..Len(es) : ~WellFormedConcat(es[k])}
        IN  /\ Len(ret.val.val.entries) = Cardinality(kept)
            /\ \A j \in 1..Len(ret.val.val.entries) :
                  \E k \in kept : ret.val.val.entries[j] = WireEntries(es)[k]

(***************************************************************************)
(* SMS-SUBMIT.                                                             *)
(***************************************************************************)
\* ValidityPeriod::Relative(n)
Relative(n) == [format |-> "Relative", value |-> n]

\* MessageSubmit::new: four assert!s, then the message
MessageSubmit_new(reject_duplicates, validity_period, status_report_request, reply_path, destination_address, protocol_id, user_data) ==
    IF validity_period # Relative(255) THEN Panic
    ELSE IF status_report_request THEN Panic
    ELSE IF reply_path THEN Panic
    ELSE IF user_data.encoding # "Utf16" THEN Panic
    ELSE Done(<<>>,
              [command_type |-> [message_type |-> "SmsSubmit",
                                 more_messages_to_send |-> FALSE,
                                 has_udh |-> FALSE],
               reject_duplicates |-> reject_duplicates,
               protocol_id |-> protocol_id,
               message_reference |-> 0,
               destination_address |-> destination_address,
               user_data |-> user_data])

\* MessageSubmit::new_default
MessageSubmit_new_default(reject_duplicates, status_report_request, destination_address, user_data) ==
    MessageSubmit_new(reject_duplicates, Relative(255), status_report_request,
                      FALSE, destination_address, 0, user_data)

\* first_octet |= 0b1 << 2
FirstOctet(reject_duplicates) == IF reject_duplicates THEN 17 + 4 ELSE 17

MessageSubmit_serialize_to_pdu_no_validity_period(self) ==
    LET head == u8_to_hex(0, u8_to_hex(FirstOctet(self.reject_duplicates), <<>>))
        address == Number_serialize_to_pdu(self.destination_address, head)
    IN  IF address.kind # "Done" THEN Panic
        ELSE LET fixed == u8_to_hex(8, u8_to_hex(self.protocol_id, address.rest))
                 body == UserData_serialize_to_pdu(self.user_data, fixed)
             IN  IF body.kind # "Done" THEN Panic ELSE Done(<<>>, body.rest)

\* MessageSubmit::serialize_to_pdu.  Done with the output, or the panic of
\* the address or of the user data
MessageSubmit_serialize_to_pdu(self) ==
    LET head == u8_to_hex(0, u8_to_hex(FirstOctet(self.reject_duplicates), <<>>))
        address == Number_serialize_to_pdu(self.destination_address, head)
    IN  IF address.kind # "Done" THEN Panic
        ELSE LET fixed == u8_to_hex(255, u8_to_hex(8,
                              u8_to_hex(self.protocol_id, address.rest)))
                 body == UserData_serialize_to_pdu(self.user_data, fixed)
             IN  IF body.kind # "Done" THEN Panic ELSE Done(<<>>, body.rest)

(***************************************************************************)
(* Submission: MessageSubmit::new or new_default, then serialize_to_pdu.   *)
(* The arguments are what a caller can hold: numbers and user data built   *)
(* by the constructors, and those of a decoded Message (its pub fields     *)
(* sender and user_data), which may be a short code, 7-bit text, or text   *)
(* with a header.                                                          *)
(***************************************************************************)
SubmitNumbers ==
    {[format |-> f, number |-> d] :
        f \in {"International", "ShortCode"},
        d \in {<<49, 50, 51, 52>>, <<49, 50, 51>>, <<55>>}}

\* a decoded header with a concatenation element
SubmitHeader ==
    [concatenated_message |-> Some([reference_number |-> 7,
                                    number_of_messages |-> 3,
                                    sequence_number |-> 2]),
     entries |-> <<>>]

SubmitUserData ==
    {[encoding |-> e, data |-> d, header |-> h] :
        e \in {"Utf16", "Gsm7Bit"},
        d \in {<<>>, <<72, 105, 33>>, <<20013>>},
        h \in {None, Some(SubmitHeader)}}

SubmitArgs ==
    {[ctor |-> "new", reject_duplicates |-> rd, validity_period |-> Relative(vp),
      status_report_request |-> srr, reply_path |-> rp,
      destination_address |-> da, protocol_id |-> pid, user_data |-> ud] :
        rd \in BOOLEAN, vp \in {255, 254, 0}, srr \in BOOLEAN, rp \in BOOLEAN,
        da \in SubmitNumbers, pid \in {0, 65}, ud \in SubmitUserData}
    \cup
    {[ctor |-> "new_default", reject_duplicates |-> rd,
      validity_period |-> Relative(255),
      status_report_request |-> srr, reply_path |-> FALSE,
      destination_address |-> da, protocol_id |-> 0, user_data |-> ud] :
        rd \in BOOLEAN, srr \in BOOLEAN, da \in SubmitNumbers, ud \in SubmitUserData}

InitSubmit ==
    /\ pc = "submit_start"
    /\ args \in SubmitArgs
    /\ output = <<>>
    /\ ret = None

SubmitNew ==
    /\ pc = "submit_start"
    /\ args.ctor = "new"
    /\ ret' = MessageSubmit_new(args.reject_duplicates, args.validity_period,
                                args.status_report_request, args.reply_path,
                                args.destination_address, args.protocol_id,
                                args.user_data)
    /\ pc' = IF ret'.kind = "Done" THEN "submit_built" ELSE "submit_new_panic"
    /\ UNCHANGED <<args, output>>

SubmitNewDefault ==
    /\ pc = "submit_start"
    /\ args.ctor = "new_default"
    /\ ret' = MessageSubmit_new_default(args.reject_duplicates,
                                        args.status_report_request,
                                        args.destination_address, args.user_data)
    /\ pc' = IF ret'.kind = "Done" THEN "submit_built" ELSE "submit_new_panic"
    /\ UNCHANGED <<args, output>>

SubmitSerialize ==
    /\ pc = "submit_built"
    /\ LET r == MessageSubmit_serialize_to_pdu(ret.val)
       IN  IF r.kind = "Done"
           THEN output' = r.val /\ pc' = "submit_serialized"
           ELSE output' = output /\ pc' = "submit_serialize_panic"
    /\ UNCHANGED <<args, ret>>

NextSubmit == SubmitNew \/ SubmitNewDefault \/ SubmitSerialize

SpecSubmit == InitSubmit /\ [][NextSubmit]_vars

\* the options MessageSubmit::new does not support
Unsupported(a) ==
    \/ a.validity_period # Relative(255)
    \/ a.status_report_request
    \/ a.reply_path
    \/ a.user_data.encoding # "Utf16"

\* C2: new and new_default, called with an unsupported option, return a
\* recoverable UnsupportedFeature error to the caller, do not abort, and no
\* output bytes are produced.
C2_UnsupportedIsRecoverable ==
    (pc # "submit_start" /\ Unsupported(args)) =>
        /\ ret.kind = "Error"
        /\ ret.val = "UnsupportedFeature"
        /\ output = <<>>

\* what the code does: an unsupported option is the panic of an assert!,
\* nothing is returned and nothing is serialised
C2_UnsupportedPanics ==
    (pc # "submit_start" /\ Unsupported(args)) =>
        /\ pc = "submit_new_panic"
        /\ ret = Panic
        /\ output = <<>>

\* the destination address as the claim lays it out: the digit count rounded
\* up to even, type 145, the digits in nibble-swapped pairs with filler 'F'
ClaimedAddress(digits) ==
    LET n == Len(digits)
        even == n + (n % 2)
    IN  <<UpperHexChar(even \div 16), UpperHexChar(even % 16), 57, 49>>
        \o [x \in 1..even |->
               IF x % 2 = 0 THEN digits[x - 1]
               ELSE IF x + 1 > n THEN 70
               ELSE digits[x + 1]]

\* the 16-bit user-data block of a text of single-unit characters
ClaimedUserData(t) ==
    <<UpperHexChar(((2 * Len(t)) % 256) \div 16), UpperHexChar((2 * Len(t)) % 16)>>
    \o [x \in 1..(4 * Len(t)) |-> UnitHex(t[((x - 1) \div 4) + 1])[((x - 1) % 4) + 1]]

ClaimedLayout(m) ==
    <<49, IF m.reject_duplicates THEN 53 ELSE 49>>
    \o <<48, 48>>
    \o ClaimedAddress(m.destination_address.number)
    \o <<UpperHexChar(m.protocol_id \div 16), UpperHexChar(m.protocol_id % 16)>>
    \o <<48, 56>>
    \o <<70, 70>>
    \o ClaimedUserData(m.user_data.data)

to_command_information(data) ==
    LET mti == BitAnd(data, 3)
        message_type == IF mti = 0 THEN "SmsDeliver"
                        ELSE IF mti = 1 THEN "SmsDeliver"
                        ELSE IF mti = 2 THEN "SmsSubmit"
                        ELSE "SmsCommand"
    IN  Ok([message_type |-> message_type,
            more_messages_to_send |-> Shr(BitAnd(data, 4), 2) = 0,
            has_udh |-> Shr(BitAnd(data, 64), 6) = 1])

to_encoding_scheme(data) ==
    IF data = 0 THEN Ok("Gsm7Bit")
    ELSE IF data = 8 THEN Ok("Utf16")
    ELSE Err

\* map_res!(hex_octet, to_command_information)
command_information_octet(i) ==
    LET r == hex_octet(i)
    IN  map_res(r, to_command_information(r.val))

\* map_res!(hex_octet, to_encoding_scheme)
encoding_scheme_octet(i) ==
    LET r == hex_octet(i)
    IN  map_res(r, to_encoding_scheme(r.val))

\* IResult::map
MapUserData(r, encoding, header) ==
    IF r.kind # "Done" THEN r
    ELSE Done(r.rest, [encoding |-> encoding, data |-> r.val, header |-> header])

\* parsed_octets and remaining_length of parse_user_data.  remaining_length
\* is a usize: when the header took more octets than length, the
\* subtraction panics in a build that checks overflow and wraps in one that
\* does not; Wrapped(v) is the count v + 2^w, w the width of usize
remaining_length(original_len, remaining, length) ==
    LET minus(parsed_octets) ==
            IF length - parsed_octets >= 0 THEN Ok(length - parsed_octets)
            ELSE IF OverflowChecks THEN [tag |-> "Panic", val |-> "overflow"]
            ELSE [tag |-> "Wrapped", val |-> length - parsed_octets]
    IN  minus((original_len - Len(remaining)) \div 2)

\* parse_user_data.  A wrapped remaining_length is a count no input can
\* supply: the 7-bit loop runs into the end of the input, the 16-bit length
\* check fails
parse_user_data(data, encoding, length, has_udh) ==
    LET original_len == Len(data)
        \* the match on encoding; text_length is remaining_length
        decode(remaining, header, text_length) ==
            IF encoding = "Gsm7Bit"
            THEN MapUserData(parse_gsm_alphabet(remaining, text_length),
                             "Gsm7Bit", header)
            ELSE IF encoding = "Utf16"
            THEN MapUserData(parse_utf16(remaining, text_length),
                             "Utf16", header)
            ELSE IF text_length > Len(remaining) \/ length > Len(data)
            THEN Panic
            ELSE Done(Drop(remaining, text_length),
                      [encoding |-> "Unknown", data |-> Take(data, length),
                       header |-> header])
        body(remaining, header, l) ==
            IF l.tag = "Panic" THEN Panic
            ELSE IF l.tag = "Wrapped"
            THEN IF encoding = "Gsm7Bit"
                 THEN MapUserData(
                          parse_gsm_alphabet(remaining, Len(remaining) + 8),
                          "Gsm7Bit", header)
                 ELSE IF encoding = "Utf16" THEN Incomplete
                 ELSE Panic
            ELSE decode(remaining, header, l.val)
        \* (remaining, header), then parsed_octets and remaining_length
        after_header(h) ==
            IF h.kind # "Done" THEN h
            ELSE body(h.rest,
                      IF h.val.some THEN Some(parse_entries(h.val.val)) ELSE None,
                      remaining_length(original_len, h.rest, length))
    IN  after_header(IF has_udh THEN parse_user_header(data)
                     ELSE Done(data, None))

\* parse_pdu, the steps of its do_parse! in turn; the timestamp is unwrapped
\* when the Message is built, after every field has been read
parse_pdu(i) ==
    LET sc_length == hex_octet(i)
    IN  IF sc_length.kind # "Done" THEN sc_length
        ELSE
    LET sc_address_type == address_type_octet(sc_length.rest)
    IN  IF sc_address_type.kind # "Done" THEN sc_address_type
        ELSE IF sc_length.val = 0 /\ OverflowChecks THEN Panic
        ELSE
    LET service_center == decimal_octet_number(sc_address_type.rest,
                                               (sc_length.val - 1) % (U8Max + 1))
    IN  IF service_center.kind # "Done" THEN service_center
        ELSE
    LET message_type == command_information_octet(service_center.rest)
    IN  IF message_type.kind # "Done" THEN message_type
        ELSE
    LET sender == parse_sender(message_type.rest)
    IN  IF sender.kind # "Done" THEN sender
        ELSE
    LET protocol_id == hex_octet(sender.rest)
    IN  IF protocol_id.kind # "Done" THEN protocol_id
        ELSE
    LET encoding_scheme == encoding_scheme_octet(protocol_id.rest)
    IN  IF encoding_scheme.kind # "Done" THEN encoding_scheme
        ELSE
    LET time_stamp == decimal_octet_number(encoding_scheme.rest, 6)
    IN  IF time_stamp.kind # "Done" THEN time_stamp
        ELSE
    LET time_zone == take(time_stamp.rest, 2)
    IN  IF time_zone.kind # "Done" THEN time_zone
        ELSE
    LET ud_length == hex_octet(time_zone.rest)
    IN  IF ud_length.kind # "Done" THEN ud_length
        ELSE
    LET message(user_data, date_time) ==
            IF user_data.kind # "Done" THEN user_data
            ELSE IF date_time.tag # "Ok" THEN Panic
            ELSE Done(user_data.rest,
                      [service_center |-> [format |-> sc_address_type.val,
                                           number |-> service_center.val],
                       command_type |-> message_type.val,
                       sender |-> sender.val,
                       protocol_id |-> protocol_id.val,
                       time_stamp |-> date_time.val,
                       user_data |-> user_data.val])
    IN  message(parse_user_data(ud_length.rest, encoding_scheme.val,
                                ud_length.val, message_type.val.has_udh),
                parse_date_time(time_zone.val, time_stamp.val))

\* the match of Message::from_string on what parse_pdu returned
Message_from_string(r) ==
    IF r.kind = "Done" THEN Ok(r.val)
    ELSE [tag |-> "Err", val |-> "unit"]

(***************************************************************************)
(* Delivery: parse_pdu, then the match of Message::from_string, on         *)
(* well-formed SMS-DELIVER PDUs cut at every point, whole ones whose        *)
(* timestamp is no date-time included.                                     *)
(***************************************************************************)
\* service centre: 3 octets (type, then 2143 for +1234)
ServiceCentreOctets == <<3, 145, 33, 67>>

\* sender +1234 (four digits) and +123 (three digits and the filler)
SenderSample == {<<4, 145, 33, 67>>, <<3, 145, 33, 243>>}

\* timestamps as their six wire octets (nibble-swapped digit pairs):
\* 24-02-29 12:30:15; month 13; 30 February; hour 24; a first pair F2, which
\* leaves eleven digits that are no date-time; a last pair F5, which leaves
\* eleven digits that are one (second 5)
TimestampValid == <<66, 32, 146, 33, 3, 81>>
TimestampLastPairFiller == <<66, 32, 146, 33, 3, 245>>

TimestampsInvalid ==
    {<<66, 49, 146, 33, 3, 81>>,
     <<66, 32, 3, 33, 3, 81>>,
     <<66, 32, 146, 66, 3, 81>>,
     <<242, 32, 146, 33, 3, 81>>}

TimestampOctetsSample ==
    {TimestampValid, TimestampLastPairFiller} \cup TimestampsInvalid

\* a header: one concatenation element {7, 3, 2}
BodyHeaderOctets == <<5, 0, 3, 7, 3, 2>>

\* the bodies: [dcs, octets after the user-data length, of which the header]
\* "hi" in the 7-bit alphabet (E8 34) and in 16-bit units (0068 0069)
BodySample ==
    {[dcs |-> 0, udh |-> FALSE, octets |-> <<232, 52>>],
     [dcs |-> 8, udh |-> FALSE, octets |-> <<0, 104, 0, 105>>],
     [dcs |-> 0, udh |-> TRUE, octets |-> BodyHeaderOctets \o <<232, 52>>],
     [dcs |-> 8, udh |-> TRUE, octets |-> BodyHeaderOctets \o <<0, 104, 0, 105>>]}

\* the whole PDU: service centre, first octet (SMS-DELIVER, no more messages,
\* the header flag), sender, protocol id, data coding scheme, timestamp,
\* timezone 0A, user-data length, body
WholePdu(sender, ts, body) ==
    HexOf(ServiceCentreOctets \o <<IF body.udh THEN 68 ELSE 4>> \o sender
          \o <<0, body.dcs>> \o ts \o <<10, Len(body.octets)>> \o body.octets)

InitPdu ==
    /\ pc = "pdu_start"
    /\ \E sender \in SenderSample, ts \in TimestampOctetsSample, body \in BodySample,
          c \in BOOLEAN :
          LET whole == WholePdu(sender, ts, body)
          IN  \E k \in 0..Len(whole) :
                 args = [pdu_string |-> Take(whole, k),
                         truncated |-> k < Len(whole),
                         time_stamp |-> ts,
                         body |-> body,
                         overflow_checks |-> c]
    /\ output = <<>>
    /\ ret = None

PduParse ==
    /\ pc = "pdu_start"
    /\ ret' = parse_pdu(args.pdu_string)
    /\ pc' = IF ret'.kind = "Panic" THEN "pdu_panic" ELSE "pdu_parsed"
    /\ UNCHANGED <<args, output>>

PduFromString ==
    /\ pc = "pdu_parsed"
    /\ ret' = Message_from_string(ret)
    /\ pc' = "pdu_done"
    /\ UNCHANGED <<args, output>>

NextPdu == PduParse \/ PduFromString

SpecPdu == InitPdu /\ [][NextPdu]_vars

\* the digit string of the six timestamp pairs is a calendar date-time
TimestampParses(ts) ==
    datetime_from_str(decimal_octet_number(HexOf(ts), 6).val).tag = "Ok"

\* C5: when the timestamp of an otherwise well-formed PDU is no valid
\* calendar date-time, parse_pdu returns the parse-error outcome (and
\* from_string an Err) to the caller.
C5_BadTimestampIsParseError ==
    (pc # "pdu_start" /\ ~args.truncated /\ ~TimestampParses(args.time_stamp)) =>
        /\ pc \in {"pdu_parsed", "pdu_done"}
        /\ pc = "pdu_parsed" => ret.kind = "Error"
        /\ pc = "pdu_done" => ret.tag = "Err"

\* what the code does: the unwrap of parse_date_time's Err panics
C5_BadTimestampPanics ==
    (pc # "pdu_start" /\ ~args.truncated) =>
        IF TimestampParses(args.time_stamp)
        THEN pc \in {"pdu_parsed", "pdu_done"}
             /\ (pc = "pdu_parsed" => ret.kind = "Done" /\ ret.rest = <<>>)
        ELSE pc = "pdu_panic" /\ ret = Panic

\* C6: a PDU cut at any point, so that some field needs more characters than
\* remain, makes parse_pdu return the incomplete-input outcome, which is not
\* the parse-error outcome.
C6_TruncatedIsIncomplete ==
    (pc \in {"pdu_parsed", "pdu_panic"} /\ args.truncated
     /\ TimestampParses(args.time_stamp)) =>
        /\ ret.kind = "Incomplete"
        /\ ret.kind # "Error"

\* what the code does: Incomplete, except that a cut inside a 7-bit body is
\* the panic of hex_octet(rest).unwrap()
C6_TruncatedSevenBitPanics ==
    (pc \in {"pdu_parsed", "pdu_panic"} /\ args.truncated) =>
        LET whole == 2 * (Len(ServiceCentreOctets) + 1 + 4 + 2 + 6 + 2
                          + Len(args.body.octets))
            text_from == whole - 2 * (Len(args.body.octets)
                                      - (IF args.body.udh THEN Len(BodyHeaderOctets) ELSE 0))
        IN  IF args.body.dcs = 0 /\ Len(args.pdu_string) >= text_from
            THEN ret = Panic
            ELSE ret.kind = "Incomplete"

(***************************************************************************)
(* Frame-buffer display, src/display/frame_buffer.rs.                      *)
(*                                                                         *)
(* self is the FrameBuffer without its frame: line_length, bytes_per_pixel,*)
(* width, height and the channel layout of device.var_screen_info.  The    *)
(* frame is a sequence of bytes, byte k of the Vec at position k + 1.  A    *)
(* Color is its intensity triple and its opacity in hundredths (100 is     *)
(* the 1.0 the code compares with).                                        *)
(***************************************************************************)
\* widest and tallest panel
MaxWidth == 2
MaxHeight == 2
\* most write_pixel calls on one FrameBuffer
MaxWrites == 2

\* a | b on the low n bits
RECURSIVE BitOrN(_, _, _)
BitOrN(a, b, n) ==
    IF n = 0 THEN 0
    ELSE (IF a % 2 = 1 \/ b % 2 = 1 THEN 1 ELSE 0)
         + 2 * BitOrN(a \div 2, b \div 2, n - 1)

\* a | b on the bits a pixel of at most two bytes has
BitOr(a, b) == BitOrN(a, b, 16)

\* Color::opacity and Color::intensities
opacity(color) == color.opacity
intensities(color) == <<color.red, color.green, color.blue>>

\* FrameBuffer::new: the frame is line_length * h zero bytes
FrameBuffer_new(w, h, line_length, bytespp, info) ==
    [self |-> [line_length |-> line_length, bytes_per_pixel |-> bytespp,
               width |-> w, height |-> h, info |-> info],
     frame |-> [k \in 1..(line_length * h) |-> 0]]

\* FrameBuffer::dimensions
dimensions(self) == <<self.width, self.height>>

\* one channel of the pixel: (c >> (8 - length)) << offset
Channel(c, bitfield) == Shr(c, 8 - bitfield.length) * Pow2(bitfield.offset)

\* the pixel write_pixel packs the color into
PackPixel(self, color) ==
    LET pack(rgb) ==
            BitOr(BitOr(Channel(rgb[1], self.info.red),
                        Channel(rgb[2], self.info.green)),
                  Channel(rgb[3], self.info.blue))
    IN  pack(intensities(color))

\* the while loop of write_pixel: byte bytes_used of the pixel, low byte
\* first, at frame[pixel_index + bytes_used]; the index past the end of the
\* frame panics, after the bytes before it were written
WritePixelBytes(self, frame, pixel_index, pixel) ==
    LET written ==
            [k \in 1..Len(frame) |->
                IF k - 1 >= pixel_index /\ k - 1 < pixel_index + self.bytes_per_pixel
                THEN (pixel \div Pow2(8 * (k - 1 - pixel_index))) % (U8Max + 1)
                ELSE frame[k]]
    IN  IF pixel_index + self.bytes_per_pixel > Len(frame)
        THEN [Panic EXCEPT !.rest = written]
        ELSE Done(written, "unit")

\* FrameBuffer::write_pixel: Done(frame, ()) or a panic with the frame as
\* the call left it
write_pixel(self, frame, x, y, color) ==
    LET store(pixel_index) ==
            IF pixel_index >= Len(frame) THEN [Panic EXCEPT !.rest = frame]
            ELSE WritePixelBytes(self, frame, pixel_index, PackPixel(self, color))
    IN  IF opacity(color) # 100 THEN Done(frame, "unit")
        ELSE store((y * self.line_length) + (x * self.bytes_per_pixel))

(***************************************************************************)
(* Display: FrameBuffer::new on a panel, then write_pixel calls at         *)
(* coordinates in and one past the panel, until a call panics.             *)
(***************************************************************************)
\* the channel layouts of a one-byte (RGB 3-3-2) and a two-byte (RGB 5-6-5)
\* pixel
ScreenInfoSample ==
    {[bytespp |-> 1,
      red |-> [length |-> 3, offset |-> 5],
      green |-> [length |-> 3, offset |-> 2],
      blue |-> [length |-> 2, offset |-> 0]],
     [bytespp |-> 2,
      red |-> [length |-> 5, offset |-> 11],
      green |-> [length |-> 6, offset |-> 5],
      blue |-> [length |-> 5, offset |-> 0]]}

\* white and a colour with every channel different, opaque; white, half
\* transparent
ColorSample ==
    {[red |-> 255, green |-> 255, blue |-> 255, opacity |-> 100],
     [red |-> 200, green |-> 100, blue |-> 64, opacity |-> 100],
     [red |-> 255, green |-> 255, blue |-> 255, opacity |-> 50]}

\* a line of the device is its pixels and up to one byte of padding
InitFrame ==
    /\ pc = "frame_ready"
    /\ \E w \in 1..MaxWidth, h \in 1..MaxHeight, info \in ScreenInfoSample,
          padding \in 0..1 :
          LET fb == FrameBuffer_new(w, h, w * info.bytespp + padding,
                                    info.bytespp, info)
          IN  /\ args = [self |-> fb.self, writes |-> 0, x |-> 0, y |-> 0,
                         color |-> [red |-> 0, green |-> 0, blue |-> 0,
                                    opacity |-> 0],
                         before |-> fb.frame]
              /\ output = fb.frame
    /\ ret = None

FrameWritePixel ==
    /\ pc = "frame_ready"
    /\ args.writes < MaxWrites
    /\ \E x \in 0..dimensions(args.self)[1], y \in 0..dimensions(args.self)[2],
          color \in ColorSample :
          /\ args' = [args EXCEPT !.x = x, !.y = y, !.color = color,
                                  !.before = output, !.writes = @ + 1]
          /\ ret' = write_pixel(args.self, output, x, y, color)
    /\ output' = ret'.rest
    /\ pc' = IF ret'.kind = "Panic" THEN "frame_panic" ELSE "frame_ready"

NextFrame == FrameWritePixel

SpecFrame == InitFrame /\ [][NextFrame]_vars

\* the last call was a fully opaque write_pixel
OpaqueWrite == args.writes > 0 /\ args.color.opacity = 100

\* (x, y) of the last call is outside what dimensions() reports
OutOfRange == args.x >= args.self.width \/ args.y >= args.self.height

\* C11: every fully opaque write_pixel(x, y, color) with x >= width or
\* y >= height is fatal and modifies no byte of the pending frame.
C11_OutOfRangeIsFatal ==
    OpaqueWrite /\ OutOfRange => ret.kind = "Panic" /\ output = args.before

\* what the code does instead: the call is fatal when the pixel's bytes, at
\* y * line_length + x * bytes_per_pixel, reach past the end of the frame,
\* whatever x and y are; a call that is not fatal has written there
C11_FatalPastFrameEnd ==
    OpaqueWrite =>
        LET first == args.y * args.self.line_length
                     + args.x * args.self.bytes_per_pixel
            last == first + args.self.bytes_per_pixel
        IN  /\ ret.kind = "Panic" <=> last > Len(args.before)
            /\ first >= Len(args.before) => output = args.before
            /\ \A k \in 1..Len(output) :
                  (k - 1 < first \/ k - 1 >= last) => output[k] = args.before[k]

\* an opaque write one past the right edge of a one-byte, unpadded panel of
\* two rows lands on the first pixel of the second row
C11_RedirectedWrite ==
    /\ OpaqueWrite /\ args.writes = 1
    /\ args.self.width = 2 /\ args.self.height = 2
    /\ args.self.line_length = 2
    /\ args.x = 2 /\ args.y = 0
    /\ ret.kind = "Done"
    /\ output = <<0, 0, 255, 0>>

(***************************************************************************)
(* Sender decode: the sender-address steps of parse_pdu on addresses as    *)
(* they come off the wire, whatever their nibbles are.                     *)
(***************************************************************************)
\* most octets of a wire address
MaxSenderOctets == 2

\* the hex characters of the nibbles 0, 9 and F, and F in lower case
NibbleCharSample == {48, 57, 70, 102}

\* the length octet holds the digit count, odd (a filler is due) or even;
\* the address octets are given by their characters
InitSender ==
    /\ pc = "sender_start"
    /\ \E n \in 1..MaxSenderOctets, odd \in 0..1 :
          \E c \in [1..(2 * n) -> NibbleCharSample] :
             args = [digit_count |-> 2 * n - odd, chars |-> c]
    /\ output = <<>>
    /\ ret = None

SenderParse ==
    /\ pc = "sender_start"
    /\ ret' = parse_sender(HexOf(<<args.digit_count, 145>>) \o args.chars)
    /\ pc' = "sender_done"
    /\ UNCHANGED <<args, output>>

NextSender == SenderParse

SpecSender == InitSender /\ [][NextSender]_vars

\* the digits of a wire address when only the final high nibble is dropped:
\* of each octet the second character, then the first
DigitsLessFinalNibble(chars) ==
    [k \in 1..(Len(chars) - 1) |-> IF k % 2 = 1 THEN chars[k + 1] ELSE chars[k - 1]]

\* C12: with an odd digit count the high nibble of the final octet is
\* dropped whatever its value and no nibble of an earlier octet is, so the
\* decoded string has exactly digit_count characters.
C12_FinalNibbleDropped ==
    pc = "sender_done" /\ args.digit_count % 2 = 1 =>
        /\ ret.kind = "Done"
        /\ ret.val.number = DigitsLessFinalNibble(args.chars)
        /\ Len(ret.val.number) = args.digit_count

\* the digits of a wire address when the first character of every octet is
\* dropped where it is an upper-case F, and nowhere else
RECURSIVE DigitsLessUpperF(_)
DigitsLessUpperF(chars) ==
    IF chars = <<>> THEN <<>>
    ELSE <<chars[2]>> \o (IF chars[1] = 70 THEN <<>> ELSE <<chars[1]>>)
         \o DigitsLessUpperF(Drop(chars, 2))

\* what the code does instead: whatever the digit count, a first character
\* 'F' is dropped from any octet and any other first character is kept
C12_UpperFDroppedAnywhere ==
    pc = "sender_done" =>
        /\ ret.kind = "Done"
        /\ ret.val.number = DigitsLessUpperF(args.chars)

(***************************************************************************)
(* User data with a header: parse_user_data with has_udh set, on a         *)
(* well-formed header and a text body, under every kind of user-data       *)
(* length: shorter than the header, the header alone, the whole, the most  *)
(* an octet holds.                                                         *)
(***************************************************************************)
\* headers by their elements: none; a concatenation element; it and one
\* more; one element that makes the header declare 127 octets, and one
\* that makes it declare 128
UserHeaderSample ==
    {<<>>,
     <<[tag |-> 0, payload |-> <<7, 3, 2>>]>>,
     <<[tag |-> 0, payload |-> <<7, 3, 2>>], [tag |-> 36, payload |-> <<1>>]>>,
     <<[tag |-> 5, payload |-> [k \in 1..125 |-> 0]]>>,
     <<[tag |-> 5, payload |-> [k \in 1..126 |-> 0]]>>}

\* "hi" in the 7-bit alphabet and in 16-bit units
TextSample ==
    {[encoding |-> "Gsm7Bit", octets |-> <<232, 52>>],
     [encoding |-> "Utf16", octets |-> <<0, 104, 0, 105>>]}

\* the octets a header takes on the wire: its length octet and the octets
\* it declares
HeaderOctets(es) == 1 + Len(ElementsOctets(es))

\* the header that declares 128 octets goes with the 16-bit text only (the
\* 7-bit loop would walk the whole of it, one call deep an octet)
InitUserData ==
    /\ pc = "ud_start"
    /\ \E es \in UserHeaderSample, text \in TextSample, c \in BOOLEAN :
          \E length \in {0, HeaderOctets(es) - 1, HeaderOctets(es),
                         HeaderOctets(es) + Len(text.octets), U8Max} :
             /\ 2 * (HeaderOctets(es) - 1) <= U8Max \/ text.encoding = "Utf16"
             /\ args = [data |-> WireHeader(es) \o HexOf(text.octets),
                     header_octets |-> HeaderOctets(es),
                     encoding |-> text.encoding,
                     length |-> length,
                     overflow_checks |-> c]
    /\ output = <<>>
    /\ ret = None

\* parse_user_data, and with what it returns the remaining_length it
\* computed on the way (none when the header step returned before it)
UserDataParse ==
    /\ pc = "ud_start"
    /\ LET h == parse_user_header(args.data)
       IN  ret' = [user_data |-> parse_user_data(args.data, args.encoding,
                                                 args.length, TRUE),
                   remaining_length |->
                       IF h.kind # "Done" THEN [tag |-> "None", val |-> h.kind]
                       ELSE remaining_length(Len(args.data), h.rest, args.length)]
    /\ pc' = "ud_done"
    /\ UNCHANGED <<args, output>>

NextUserData == UserDataParse

SpecUserData == InitUserData /\ [][NextUserData]_vars

\* C13: with the header flag set, the length handed to the alphabet decoder
\* is the user-data length less the octets the header consumed (its length
\* octet and the octets it declares), and the subtraction is well defined
\* for every user-data length and every parsable header, one that declares
\* more octets than the user-data length included.
C13_HeaderOctetsSubtracted ==
    pc = "ud_done" =>
        /\ ret.remaining_length.tag = "Ok"
        /\ args.length >= args.header_octets =>
              ret.remaining_length.val = args.length - args.header_octets

\* what the code does instead: the header takes its length octet and
\* (2 * declared) mod 256 characters, the doubling being fatal past 255
\* where overflow is checked; a user-data length below what the header took
\* is fatal where overflow is checked and wraps where it is not
C13_SubtractionUnderflows ==
    pc = "ud_done" =>
        LET declared == args.header_octets - 1
            taken == 1 + ((2 * declared) % (U8Max + 1)) \div 2
        IN  IF 2 * declared > U8Max /\ args.overflow_checks
            THEN ret.user_data = Panic /\ ret.remaining_length.tag = "None"
            ELSE IF args.length >= taken
            THEN ret.remaining_length = Ok(args.length - taken)
            ELSE IF args.overflow_checks
            THEN ret.user_data = Panic /\ ret.remaining_length.tag = "Panic"
            ELSE /\ ret.remaining_length.tag = "Wrapped"
                 /\ ret.user_data.kind # "Done"

(***************************************************************************)
(* Message-type bits: the submission above, then to_command_information on *)
(* the first octet serialize_to_pdu wrote, read as the decoder reads the   *)
(* command-info octet of parse_pdu.                                        *)
(***************************************************************************)
SubmitDecodeType ==
    /\ pc = "submit_serialized"
    /\ ret' = command_information_octet(output)
    /\ pc' = "submit_type_decoded"
    /\ UNCHANGED <<args, output>>

NextSubmitType == NextSubmit \/ SubmitDecodeType

SpecSubmitType == InitSubmit /\ [][NextSubmitType]_vars

\* C14: the first octet serialize_to_pdu writes, with reject_duplicates true
\* or false, decodes through to_command_information to the message type
\* SmsSubmit with has_udh false.
C14_TypeBitsAgree ==
    pc = "submit_type_decoded" =>
        /\ ret.kind = "Done"
        /\ ret.val.message_type = "SmsSubmit"
        /\ ret.val.has_udh = FALSE

\* what the code does instead: the encoder's type bits 01 are read as
\* SmsDeliver; the header flag is read as clear, and reject_duplicates comes
\* back as the negation of more_messages_to_send
C14_SubmitReadAsDeliver ==
    pc = "submit_type_decoded" =>
        /\ ret.kind = "Done"
        /\ ret.val.message_type = "SmsDeliver"
        /\ ret.val.has_udh = FALSE
        /\ ret.val.more_messages_to_send = ~args.reject_duplicates
        /\ Take(output, 2) = (IF args.reject_duplicates THEN <<49, 53>>
                              ELSE <<49, 49>>)

====
